---- MODULE Spec2Model ----
(***************************************************************************)
(* ThreadPool of thread_pool_example.cpp: a fixed set of worker threads    *)
(* that pop std::function tasks from one std::queue guarded by             *)
(* queue_mutex / condition, enqueue() that wraps a callable in a           *)
(* std::packaged_task and returns its std::future, and the destructor      *)
(* that sets stop, wakes every worker and joins them.                      *)
(*                                                                         *)
(* Threads: the workers 1..threads, the owner of the pool (it constructs   *)
(* it and runs the destructor) and the submitting thread "c1", which may   *)
(* be the owner before it destroys the pool or a thread racing with it.    *)
(* Every step that touches stop or tasks is taken with queue_mutex held,   *)
(* as in the source; a worker blocked in condition.wait does not hold it.  *)
(***************************************************************************)
EXTENDS Integers, Sequences, FiniteSets, TLC

\* ------------------------------------------------------------------ bounds
MaxWorkers == 2     \* largest `threads` argument of the constructor
MaxTasks == 2       \* packaged_tasks created over a run
MaxSpurious == 1    \* spurious wakeups of condition.wait over a run

Clients == {"c1"}
TaskIds == 1..MaxTasks
Empty == [kind |-> "empty", v |-> 0]

VARIABLES
    threads,    \* constructor argument: number of workers spawned
    stop,       \* bool stop
    tasks,      \* std::queue<std::function<void()>> tasks (task ids, front first)
    locked,     \* queue_mutex is held
    waiters,    \* workers blocked inside condition.wait
    wpc,        \* worker -> position in the worker lambda
    wtask,      \* worker -> the local `task` (0: none)
    joined,     \* workers whose std::thread is no longer joinable
    cpc,        \* client -> position in enqueue
    ctask,      \* client -> local packaged_task `task` (0: none)
    rejected,   \* tasks whose enqueue call threw "enqueue on stopped ThreadPool"
    nextId,     \* next packaged_task identity
    fails,      \* task -> its body throws
    slot,       \* task -> shared state of its packaged_task / future
    handles,    \* futures returned to callers
    claims,     \* task -> times it was moved out of the queue by a worker
    runs,       \* task -> times its body was invoked
    writes,     \* task -> times its shared state was written
    logged,     \* exceptions that reached the worker's catch blocks
    enqOrder,   \* tasks in the order they were emplaced
    popOrder,   \* tasks in the order they were popped
    dpc,        \* position of the owner in ~ThreadPool
    joinIdx,    \* index of the range-for over workers in ~ThreadPool
    alive,      \* the members of the pool have not been destroyed
    aborted,    \* the process was terminated (std::terminate / fault)
    spurious,   \* spurious wakeups so far
    ctor,       \* position of the owner in the constructor
    created,    \* workers.size(): threads emplaced so far
    consumed,   \* futures on which get() has been called (valid() is false)
    got,        \* task -> what the first get() on its future returned
    reget       \* task -> what the latest later get() on its future did

vars == <<threads, stop, tasks, locked, waiters, wpc, wtask, joined, cpc, ctask,
          rejected, nextId, fails, slot, handles, claims, runs, writes,
          logged, enqOrder, popOrder, dpc, joinIdx, alive, aborted, spurious,
          ctor, created, consumed, got, reget>>

poolVars == <<threads, stop, tasks, locked, waiters, wpc, wtask, joined>>
clientVars == <<cpc, ctask, rejected, nextId, fails, handles>>
taskVars == <<slot, claims, runs, writes, logged>>
histVars == <<enqOrder, popOrder>>
dtorVars == <<dpc, joinIdx, alive>>
ctorVars == <<ctor, created>>
getVars == <<consumed, got, reget>>

Workers == 1..threads

\* ------------------------------------------------------------ constructor
\* ThreadPool(threads): stop(false), `threads` workers entering their loop.
InitPool(n) ==
    /\ threads = n
    /\ stop = FALSE
    /\ tasks = <<>>
    /\ locked = FALSE
    /\ waiters = {}
    /\ wpc = [w \in 1..n |-> "lock"]
    /\ wtask = [w \in 1..n |-> 0]
    /\ joined = {}

InitRest ==
    /\ cpc = [c \in Clients |-> "idle"]
    /\ ctask = [c \in Clients |-> 0]
    /\ rejected = {}
    /\ nextId = 1
    /\ fails = [t \in TaskIds |-> FALSE]
    /\ slot = [t \in TaskIds |-> Empty]
    /\ handles = {}
    /\ claims = [t \in TaskIds |-> 0]
    /\ runs = [t \in TaskIds |-> 0]
    /\ writes = [t \in TaskIds |-> 0]
    /\ logged = 0
    /\ enqOrder = <<>>
    /\ popOrder = <<>>
    /\ dpc = "none"
    /\ joinIdx = 1
    /\ alive = TRUE
    /\ aborted = FALSE
    /\ spurious = 0
    /\ consumed = {}
    /\ got = [t \in TaskIds |-> Empty]
    /\ reget = [t \in TaskIds |-> Empty]

\* The state in which the constructor returns a pool of n workers.
Constructed(n) == ctor = "done" /\ created = n

Init == (\E n \in 1..MaxWorkers : InitPool(n) /\ Constructed(n)) /\ InitRest

\* ------------------------------------------------------------ worker loop
\* Variant: a wait without a predicate, which any wakeup ends.
WaitPredicate_Always == TRUE

\* Variant: the predicate ignores the queue.
WaitPredicate_StopOnly == stop

\* The predicate of condition.wait (line 21).
WaitPredicate == stop \/ tasks /= <<>>

\* Variant: the worker leaves as soon as stop is set.
ExitCondition_NoDrain == stop

\* The exit test of the worker (line 22).
ExitCondition == stop /\ tasks = <<>>

\* Variant: the front element is not removed.
Pop_Keep(q) == q

\* Variant: the newest element is taken.
Front_Back(q) == q[Len(q)]

\* tasks.front() and tasks.pop() (lines 23-24).
Front(q) == Head(q)
Pop(q) == Tail(q)

\* The value the body of task t computes (main: i * i).
Result(t) == t * t

\* Variant: a throwing body leaves a default value in the shared state.
Outcome_Swallow(t) ==
    IF fails[t] THEN [kind |-> "value", v |-> 0]
    ELSE [kind |-> "value", v |-> t * t]

\* What running the body of task t leaves in the shared state: the
\* packaged_task stores the value, or the exception the body threw.
Outcome(t) ==
    IF fails[t] THEN [kind |-> "exception", v |-> 0]
    ELSE [kind |-> "value", v |-> Result(t)]

\* std::packaged_task::operator(): runs the body only if the shared state
\* is not yet satisfied; otherwise it throws std::future_error.
CallRunsBody(t) == slot[t] = Empty

\* Variant: the thread function ends after a task.
AfterTask_Exit == "terminated"

\* Where the worker continues after task() returned or threw: both catch
\* blocks fall through to the next iteration of for(;;).
AfterTask == "lock"

\* line 20: std::unique_lock lock(queue_mutex); and line 21, for a wait
\* that was woken: it re-acquires the lock and, like a thread arriving from
\* line 20, evaluates the predicate next.
W_Lock(w) ==
    /\ ~aborted
    /\ w \in Workers
    /\ wpc[w] = "lock"
    /\ ~locked
    /\ locked' = TRUE
    /\ wpc' = [wpc EXCEPT ![w] = "wait"]
    /\ UNCHANGED <<threads, stop, tasks, waiters, wtask, joined>>
    /\ UNCHANGED <<clientVars, taskVars, histVars, dtorVars, aborted, spurious>>
    /\ UNCHANGED <<ctorVars, getVars>>

\* line 21: the predicate fails, wait releases the lock and blocks
W_WaitBlock(w) ==
    /\ ~aborted
    /\ w \in Workers
    /\ wpc[w] = "wait"
    /\ ~WaitPredicate
    /\ locked' = FALSE
    /\ waiters' = waiters \cup {w}
    /\ wpc' = [wpc EXCEPT ![w] = "blocked"]
    /\ UNCHANGED <<threads, stop, tasks, wtask, joined>>
    /\ UNCHANGED <<clientVars, taskVars, histVars, dtorVars, aborted, spurious>>
    /\ UNCHANGED <<ctorVars, getVars>>

\* line 21: a blocked wait wakes without a notification
W_Spurious(w) ==
    /\ ~aborted
    /\ w \in Workers
    /\ wpc[w] = "blocked"
    /\ w \in waiters
    /\ spurious < MaxSpurious
    /\ spurious' = spurious + 1
    /\ waiters' = waiters \ {w}
    /\ wpc' = [wpc EXCEPT ![w] = "lock"]
    /\ UNCHANGED <<threads, stop, tasks, locked, wtask, joined>>
    /\ UNCHANGED <<clientVars, taskVars, histVars, dtorVars, aborted>>
    /\ UNCHANGED <<ctorVars, getVars>>

\* lines 21-22: the predicate holds, wait returns with the lock held;
\* if(stop && tasks.empty()) return;   (the lock is released)
W_Return(w) ==
    /\ ~aborted
    /\ w \in Workers
    /\ wpc[w] = "wait"
    /\ WaitPredicate
    /\ ExitCondition
    /\ locked' = FALSE
    /\ wpc' = [wpc EXCEPT ![w] = "terminated"]
    /\ UNCHANGED <<threads, stop, tasks, waiters, wtask, joined>>
    /\ UNCHANGED <<clientVars, taskVars, histVars, dtorVars, aborted, spurious>>
    /\ UNCHANGED <<ctorVars, getVars>>

\* Variant: the lock's scope also encloses task().
LockedAfterPop_Held == TRUE

\* queue_mutex after the block of lines 19-25: the unique_lock is destroyed
\* at line 25, before task() is called.
LockedAfterPop == FALSE

\* lines 21-25: the predicate holds and the exit test fails:
\* task = std::move(tasks.front()); tasks.pop(); unlock.
\* front() of an empty queue is undefined: the process may fault.
W_Pop(w) ==
    /\ ~aborted
    /\ w \in Workers
    /\ wpc[w] = "wait"
    /\ WaitPredicate
    /\ ~ExitCondition
    /\ IF tasks = <<>>
       THEN /\ aborted' = TRUE
            /\ UNCHANGED <<poolVars, claims, histVars>>
       ELSE /\ wtask' = [wtask EXCEPT ![w] = Front(tasks)]
            /\ tasks' = Pop(tasks)
            /\ claims' = [claims EXCEPT ![Front(tasks)] = @ + 1]
            /\ popOrder' = Append(popOrder, Front(tasks))
            /\ locked' = LockedAfterPop
            /\ wpc' = [wpc EXCEPT ![w] = "exec"]
            /\ UNCHANGED <<threads, stop, waiters, joined, enqOrder, aborted>>
    /\ UNCHANGED <<clientVars, slot, runs, writes, logged, dtorVars, spurious>>
    /\ UNCHANGED <<ctorVars, getVars>>

\* lines 26-32: try { task(); } catch ...
\* task() calls (*task)() of the packaged_task (line 49).
W_Exec(w) ==
    /\ ~aborted
    /\ w \in Workers
    /\ wpc[w] = "exec"
    /\ LET t == wtask[w] IN
         IF CallRunsBody(t)
         THEN /\ runs' = [runs EXCEPT ![t] = @ + 1]
              /\ slot' = [slot EXCEPT ![t] = Outcome(t)]
              /\ writes' = [writes EXCEPT ![t] = @ + 1]
              /\ UNCHANGED logged
         ELSE /\ logged' = logged + 1
              /\ UNCHANGED <<runs, slot, writes>>
    /\ wtask' = [wtask EXCEPT ![w] = 0]
    /\ wpc' = [wpc EXCEPT ![w] = AfterTask]
    /\ UNCHANGED <<threads, stop, tasks, locked, waiters, joined, claims>>
    /\ UNCHANGED <<clientVars, histVars, dtorVars, aborted, spurious>>
    /\ UNCHANGED <<ctorVars, getVars>>

Worker(w) ==
    \/ W_Lock(w) \/ W_WaitBlock(w) \/ W_Spurious(w)
    \/ W_Return(w) \/ W_Pop(w) \/ W_Exec(w)

\* ---------------------------------------------------------------- enqueue
\* Variant: the task is put at the front.
Emplace_Front(q, t) == <<t>> \o q

\* tasks.emplace(...) (line 49)
Emplace(q, t) == Append(q, t)

\* Variant: the stop test is missing.
Rejects_Never == FALSE

\* if(stop) throw ... (line 48): the submission is rejected
Rejects == stop

\* lines 41-45: the packaged_task and its future are created.  A call is
\* started only on a pool whose constructor has returned and whose lifetime
\* has not ended.
E_Create(c, f) ==
    /\ ~aborted
    /\ cpc[c] = "idle"
    /\ ctor = "done"
    /\ alive
    /\ nextId <= MaxTasks
    /\ ctask' = [ctask EXCEPT ![c] = nextId]
    /\ fails' = [fails EXCEPT ![nextId] = f]
    /\ nextId' = nextId + 1
    /\ UNCHANGED rejected
    /\ cpc' = [cpc EXCEPT ![c] = "e_lock"]
    /\ UNCHANGED <<poolVars, handles, taskVars, histVars, dtorVars, aborted, spurious>>
    /\ UNCHANGED <<ctorVars, getVars>>

\* line 47: std::unique_lock lock(queue_mutex)
E_Lock(c) ==
    /\ ~aborted
    /\ cpc[c] = "e_lock"
    /\ ~locked
    /\ locked' = TRUE
    /\ cpc' = [cpc EXCEPT ![c] = "e_check"]
    /\ UNCHANGED <<threads, stop, tasks, waiters, wpc, wtask, joined>>
    /\ UNCHANGED <<ctask, rejected, nextId, fails, handles>>
    /\ UNCHANGED <<taskVars, histVars, dtorVars, aborted, spurious>>
    /\ UNCHANGED <<ctorVars, getVars>>

\* line 48, stop set: throw std::runtime_error; the lock, the future and
\* the packaged_task are released while the exception unwinds.
E_Throw(c) ==
    /\ ~aborted
    /\ cpc[c] = "e_check"
    /\ Rejects
    /\ locked' = FALSE
    /\ rejected' = rejected \cup {ctask[c]}
    /\ ctask' = [ctask EXCEPT ![c] = 0]
    /\ cpc' = [cpc EXCEPT ![c] = "idle"]
    /\ UNCHANGED <<threads, stop, tasks, waiters, wpc, wtask, joined>>
    /\ UNCHANGED <<nextId, fails, handles>>
    /\ UNCHANGED <<taskVars, histVars, dtorVars, aborted, spurious>>
    /\ UNCHANGED <<ctorVars, getVars>>

\* lines 48-50, stop clear: tasks.emplace(...); the lock is released
E_Emplace(c) ==
    /\ ~aborted
    /\ cpc[c] = "e_check"
    /\ ~Rejects
    /\ tasks' = Emplace(tasks, ctask[c])
    /\ enqOrder' = Append(enqOrder, ctask[c])
    /\ locked' = FALSE
    /\ cpc' = [cpc EXCEPT ![c] = "e_notify"]
    /\ UNCHANGED <<threads, stop, waiters, wpc, wtask, joined, popOrder>>
    /\ UNCHANGED <<ctask, rejected, nextId, fails, handles>>
    /\ UNCHANGED <<taskVars, dtorVars, aborted, spurious>>
    /\ UNCHANGED <<ctorVars, getVars>>

\* Variant: notify_all in place of notify_one.
NotifyOne_All(ws) == {ws}

\* Variant: the notification is missing.
NotifyOne_None(ws) == {{}}

\* The sets of waiting threads condition.notify_one() may wake (line 51):
\* any one of them, or nobody when nobody waits.
NotifyOne(ws) == IF ws = {} THEN {{}} ELSE {{w} : w \in ws}

\* lines 51-52: condition.notify_one(); return res;
E_Notify(c) ==
    /\ ~aborted
    /\ cpc[c] = "e_notify"
    /\ \E woken \in NotifyOne(waiters) :
          /\ waiters' = waiters \ woken
          /\ wpc' = [w \in Workers |-> IF w \in woken THEN "lock" ELSE wpc[w]]
    /\ handles' = handles \cup {ctask[c]}
    /\ ctask' = [ctask EXCEPT ![c] = 0]
    /\ cpc' = [cpc EXCEPT ![c] = "idle"]
    /\ UNCHANGED <<threads, stop, tasks, locked, wtask, joined>>
    /\ UNCHANGED <<rejected, nextId, fails>>
    /\ UNCHANGED <<taskVars, histVars, dtorVars, aborted, spurious>>
    /\ UNCHANGED <<ctorVars, getVars>>

\* A call still inside enqueue when the pool's members are destroyed uses
\* queue_mutex, tasks or condition after their lifetime: undefined.  One
\* outcome is that the storage is still intact (the steps above), the
\* other that the process faults.
E_Dangling(c) ==
    /\ ~aborted
    /\ cpc[c] \in {"e_lock", "e_check", "e_notify"}
    /\ ~alive
    /\ aborted' = TRUE
    /\ UNCHANGED <<poolVars, clientVars, taskVars, histVars, dtorVars, spurious>>
    /\ UNCHANGED <<ctorVars, getVars>>

Client(c) ==
    \/ \E f \in BOOLEAN : E_Create(c, f)
    \/ E_Lock(c) \/ E_Throw(c) \/ E_Emplace(c) \/ E_Notify(c) \/ E_Dangling(c)

\* ------------------------------------------------------------- destructor
\* Variant: the flag is flipped instead of set.
StopValue_Toggle == ~stop

\* stop = true (line 58)
StopValue == TRUE

\* Variant: notify_one in place of notify_all.
NotifyAll_One(ws) == IF ws = {} THEN {} ELSE {CHOOSE w \in ws : TRUE}

\* The waiting threads condition.notify_all() wakes (line 60)
NotifyAll(ws) == ws

\* worker.joinable() (line 62)
Joinable(w) == w \notin joined

\* worker.join() returns once the thread function has returned (line 63)
JoinReturns(w) == wpc[w] = "terminated"

\* line 57: the owner enters ~ThreadPool of a constructed pool and locks
D_Lock ==
    /\ ~aborted
    /\ ctor = "done"
    /\ dpc = "none"
    /\ ~locked
    /\ locked' = TRUE
    /\ dpc' = "d_set"
    /\ UNCHANGED <<threads, stop, tasks, waiters, wpc, wtask, joined>>
    /\ UNCHANGED <<clientVars, taskVars, histVars, joinIdx, alive>>
    /\ UNCHANGED <<aborted, spurious>>
    /\ UNCHANGED <<ctorVars, getVars>>

\* lines 58-59: stop = true; the lock is released
D_Set ==
    /\ ~aborted
    /\ dpc = "d_set"
    /\ stop' = StopValue
    /\ locked' = FALSE
    /\ dpc' = "d_notify"
    /\ UNCHANGED <<threads, tasks, waiters, wpc, wtask, joined>>
    /\ UNCHANGED <<clientVars, taskVars, histVars, joinIdx, alive>>
    /\ UNCHANGED <<aborted, spurious>>
    /\ UNCHANGED <<ctorVars, getVars>>

\* line 60: condition.notify_all()
D_NotifyAll ==
    /\ ~aborted
    /\ dpc = "d_notify"
    /\ waiters' = waiters \ NotifyAll(waiters)
    /\ wpc' = [w \in Workers |->
                 IF w \in NotifyAll(waiters) THEN "lock" ELSE wpc[w]]
    /\ dpc' = "d_join"
    /\ joinIdx' = 1
    /\ UNCHANGED <<threads, stop, tasks, locked, wtask, joined>>
    /\ UNCHANGED <<clientVars, taskVars, histVars, alive>>
    /\ UNCHANGED <<aborted, spurious>>
    /\ UNCHANGED <<ctorVars, getVars>>

\* lines 61-65: one iteration of the range-for: join the worker if joinable
D_Join ==
    /\ ~aborted
    /\ dpc = "d_join"
    /\ joinIdx <= threads
    /\ IF Joinable(joinIdx)
       THEN /\ JoinReturns(joinIdx)
            /\ joined' = joined \cup {joinIdx}
       ELSE UNCHANGED joined
    /\ joinIdx' = joinIdx + 1
    /\ UNCHANGED <<threads, stop, tasks, locked, waiters, wpc, wtask>>
    /\ UNCHANGED <<clientVars, taskVars, histVars, dpc, alive>>
    /\ UNCHANGED <<aborted, spurious>>
    /\ UNCHANGED <<ctorVars, getVars>>

\* line 66: the body is done; the members (condition, queue_mutex, tasks,
\* workers) are destroyed and the destructor returns.
D_Return ==
    /\ ~aborted
    /\ dpc = "d_join"
    /\ joinIdx > threads
    /\ dpc' = "returned"
    /\ alive' = FALSE
    /\ UNCHANGED <<poolVars, clientVars, taskVars, histVars, joinIdx>>
    /\ UNCHANGED <<aborted, spurious>>
    /\ UNCHANGED <<ctorVars, getVars>>

Destructor == D_Lock \/ D_Set \/ D_NotifyAll \/ D_Join \/ D_Return

\* The class has no shutdown(): the only way to invoke the teardown
\* explicitly is pool.~ThreadPool(), after which the implicit destruction
\* at scope exit runs the destructor a second time, on an object whose
\* members (workers, tasks, queue_mutex, condition) are already destroyed.
\* That is undefined: either the storage happens to be intact, the body
\* runs again (stop = true again, nobody waits, no worker is joinable) and
\* returns, or the process faults (the vector's buffer freed twice).
D_Again ==
    /\ ~aborted
    /\ dpc = "returned"
    /\ \/ /\ stop' = StopValue
          /\ waiters' = waiters \ NotifyAll(waiters)
          /\ \A w \in Workers : ~Joinable(w)
          /\ dpc' = "returned_again"
          /\ UNCHANGED aborted
       \/ /\ dpc' = "faulted"
          /\ aborted' = TRUE
          /\ UNCHANGED <<stop, waiters>>
    /\ UNCHANGED <<threads, tasks, locked, wpc, wtask, joined>>
    /\ UNCHANGED <<clientVars, taskVars, histVars, joinIdx, alive, spurious>>
    /\ UNCHANGED <<ctorVars, getVars>>

\* -------------------------------------------------------------- behaviours
Next ==
    \/ \E w \in 1..MaxWorkers : Worker(w)
    \/ \E c \in Clients : Client(c)
    \/ Destructor

Spec == Init /\ [][Next]_vars

\* The pool torn down explicitly and then again at scope exit.
NextTwice == Next \/ D_Again
SpecTwice == Init /\ [][NextTwice]_vars

\* Scheduling: every thread that can take a step of the pool's code
\* eventually takes it.  Starting a submission, starting the destructor
\* and spurious wakeups are left to the environment.
WorkerStep(w) ==
    \/ W_Lock(w) \/ W_WaitBlock(w) \/ W_Return(w)
    \/ W_Pop(w) \/ W_Exec(w)
ClientStep(c) == E_Lock(c) \/ E_Throw(c) \/ E_Emplace(c) \/ E_Notify(c)
DestructorStep == D_Set \/ D_NotifyAll \/ D_Join \/ D_Return
Fairness ==
    /\ \A w \in 1..MaxWorkers : WF_vars(WorkerStep(w))
    /\ \A c \in Clients : WF_vars(ClientStep(c))
    /\ WF_vars(DestructorStep)
FairSpec == Init /\ [][Next]_vars /\ Fairness

\* --------------------------------------------- constructor, step by step
\* main, line 83: ThreadPool pool(n > 0 ? n : 4)
DefaultThreads == 4

\* Variant: the hint is passed on unchecked.
PoolSize_NoClamp(n) == n

\* The argument main passes for the hint n of hardware_concurrency.
PoolSize(n) == IF n > 0 THEN n ELSE DefaultThreads

WorkerIds ==
    1..(IF MaxWorkers > DefaultThreads THEN MaxWorkers ELSE DefaultThreads)

\* line 14: the constructor is entered: stop(false), no thread yet.
InitCtor ==
    /\ \E hint \in 0..MaxWorkers : threads = PoolSize(hint)
    /\ stop = FALSE
    /\ tasks = <<>>
    /\ locked = FALSE
    /\ waiters = {}
    /\ wpc = [w \in 1..threads |-> "unborn"]
    /\ wtask = [w \in 1..threads |-> 0]
    /\ joined = {}
    /\ ctor = "spawning"
    /\ created = 0
    /\ InitRest

\* lines 15-16: workers.emplace_back(...) starts the next thread
K_Spawn ==
    /\ ~aborted
    /\ ctor = "spawning"
    /\ created < threads
    /\ wpc' = [wpc EXCEPT ![created + 1] = "lock"]
    /\ created' = created + 1
    /\ UNCHANGED <<threads, stop, tasks, locked, waiters, wtask, joined, ctor>>
    /\ UNCHANGED <<clientVars, taskVars, histVars, dtorVars, getVars>>
    /\ UNCHANGED <<aborted, spurious>>

\* lines 15-16: std::thread cannot be created and emplace_back throws
\* std::system_error.  The constructor has no handler: the exception leaves
\* it, the destructor body is not run, and the members are destroyed.
\* Destroying workers destroys the threads already created, which are
\* joinable and running: ~thread calls std::terminate.  Only when no thread
\* had been created does the exception reach the caller.
K_Fail ==
    /\ ~aborted
    /\ ctor = "spawning"
    /\ created < threads
    /\ IF created > 0
       THEN /\ ctor' = "terminated"
            /\ aborted' = TRUE
            /\ UNCHANGED alive
       ELSE /\ ctor' = "threw"
            /\ alive' = FALSE
            /\ UNCHANGED aborted
    /\ UNCHANGED <<poolVars, clientVars, taskVars, histVars, getVars>>
    /\ UNCHANGED <<dpc, joinIdx, created, spurious>>

\* line 35: the loop is over and the constructor returns
K_Done ==
    /\ ~aborted
    /\ ctor = "spawning"
    /\ created >= threads
    /\ ctor' = "done"
    /\ UNCHANGED <<poolVars, clientVars, taskVars, histVars, dtorVars, getVars>>
    /\ UNCHANGED <<created, aborted, spurious>>

Constructor == K_Spawn \/ K_Fail \/ K_Done

NextCtor ==
    \/ Constructor
    \/ \E w \in WorkerIds : Worker(w)
    \/ \E c \in Clients : Client(c)
    \/ Destructor

SpecCtor == InitCtor /\ [][NextCtor]_vars

\* ------------------------------------------------------------ future::get
\* Variant: get() does not wait for the shared state.
Ready_Always(t) == TRUE

\* The shared state of t is ready: get() blocks until then.
Ready(t) == slot[t] /= Empty

\* main, line 102: result.get() on a returned future, by a thread that is
\* outside enqueue.  The first call waits for the shared state, returns its
\* content and leaves the future invalid.  A later call on the same
\* std::future is undefined (valid() is false): it throws
\* std::future_error(no_state) or dereferences the null state and faults.
G_Get(t) ==
    /\ ~aborted
    /\ t \in handles
    /\ \A c \in Clients : cpc[c] = "idle"
    /\ IF t \notin consumed
       THEN /\ Ready(t)
            /\ got' = [got EXCEPT ![t] = slot[t]]
            /\ consumed' = consumed \cup {t}
            /\ UNCHANGED <<reget, aborted>>
       ELSE /\ \E how \in {"no_state", "fault"} :
                  /\ reget' = [reget EXCEPT ![t] = [kind |-> how, v |-> 0]]
                  /\ aborted' = (how = "fault")
            /\ UNCHANGED <<got, consumed>>
    /\ UNCHANGED <<poolVars, clientVars, taskVars, histVars, dtorVars, ctorVars>>
    /\ UNCHANGED spurious

NextGet == Next \/ \E t \in TaskIds : G_Get(t)
SpecGet == Init /\ [][NextGet]_vars

\* ------------------------------------------------------------- properties
Range(q) == {q[i] : i \in 1..Len(q)}
IsPrefix(p, q) == Len(p) <= Len(q) /\ \A i \in 1..Len(p) : p[i] = q[i]

\* Tasks the queue accepted.
Accepted == Range(enqOrder)

AllTerminated == \A w \in Workers : wpc[w] = "terminated"

\* The content the shared state of t must have once its body has run.
OwnOutcome(t) ==
    IF fails[t] THEN [kind |-> "exception", v |-> 0]
    ELSE [kind |-> "value", v |-> t * t]

\* C1: at-most-once execution: a task is popped by at most one worker,
\* its body is invoked at most once, no two workers hold the same task and
\* a task a worker holds is no longer in the queue.
C1_AtMostOnce ==
    /\ \A t \in TaskIds : claims[t] <= 1 /\ runs[t] <= 1
    /\ \A w1, w2 \in Workers :
          (w1 /= w2 /\ wtask[w1] /= 0) => wtask[w1] /= wtask[w2]
    /\ \A w \in Workers : wtask[w] /= 0 => wtask[w] \notin Range(tasks)

\* Two workers hold a task at the same time.
C1_Witness ==
    \E w1, w2 \in Workers : w1 /= w2 /\ wpc[w1] = "exec" /\ wpc[w2] = "exec"

\* C2: shutdown drains: no worker is Terminated while the queue is
\* non-empty; once every worker has terminated, and so when the destructor
\* has returned, the queue is empty and every accepted task has been run and
\* its shared state holds its own outcome.
C2_ShutdownDrains ==
    /\ (\E w \in Workers : wpc[w] = "terminated") => tasks = <<>>
    /\ AllTerminated =>
          \A t \in Accepted : runs[t] = 1 /\ slot[t] = OwnOutcome(t)
    /\ dpc = "returned" =>
          /\ tasks = <<>>
          /\ AllTerminated
          /\ \A t \in Accepted : slot[t] /= Empty

\* The destructor has returned after two tasks were accepted.
C2_Witness == dpc = "returned" /\ Len(enqOrder) >= 2 /\ handles = Accepted

\* C3: the futures returned are exactly those of the enqueue calls that
\* completed without throwing, no shared state is written more than once,
\* and under fair scheduling every returned future's shared state is
\* eventually written (exactly once).
C3_HandlesResolveOnce ==
    /\ [](handles = Accepted \ {ctask[c] : c \in {d \in Clients : cpc[d] = "e_notify"}})
    /\ [](handles \cap rejected = {})
    /\ [](\A t \in TaskIds : writes[t] <= 1)
    /\ \A t \in TaskIds : (t \in handles) ~> (writes[t] = 1 /\ slot[t] /= Empty)

\* Two futures were returned and both are resolved.
C3_Witness ==
    Cardinality(handles) >= 2 /\ \A t \in handles : writes[t] = 1

\* C4: FIFO: the tasks popped so far are, in order, the first tasks that
\* were emplaced; with a single worker every task popped before the latest
\* one has already been run when the latest is popped.
C4_Fifo ==
    /\ IsPrefix(popOrder, enqOrder)
    /\ threads = 1 => \A i \in 1..(Len(popOrder) - 1) : runs[popOrder[i]] = 1

\* A single worker has popped two tasks.
C4_Witness == threads = 1 /\ Len(popOrder) >= 2

\* C5: an enqueue call that finds stop set throws: it leaves the queue and
\* the returned futures unchanged and its task is recorded as rejected; a
\* rejected task is never queued, returned or run.
C5_RejectAfterStop ==
    /\ [][\A c \in Clients :
            (cpc[c] = "e_check" /\ stop /\ cpc'[c] /= "e_check") =>
                /\ tasks' = tasks
                /\ handles' = handles
                /\ ctask[c] \in rejected'
                /\ cpc'[c] = "idle"]_vars
    /\ [](\A t \in rejected :
            t \notin Accepted /\ t \notin handles /\ runs[t] = 0 /\ slot[t] = Empty)

\* A submission was rejected.
C5_Witness == rejected /= {} /\ stop

\* C6: failure isolation: the worker that ran a throwing task goes back to
\* the top of its loop (Idle), not to Terminated, and under fair scheduling
\* every accepted task, whatever failed before it, is run and leaves its own
\* outcome in its shared state.
C6_FailureIsolation ==
    /\ [][\A w \in Workers :
            (wpc[w] = "exec" /\ fails[wtask[w]] /\ wpc'[w] /= "exec") =>
                (wpc'[w] = "lock" /\ ~aborted')]_vars
    /\ \A t \in TaskIds :
          (t \in Accepted /\ \E u \in TaskIds : fails[u] /\ runs[u] = 1)
              ~> (slot[t] = OwnOutcome(t))

\* A task emplaced after a task that threw has produced its value.
C6_Witness ==
    \E i, j \in 1..Len(enqOrder) :
        /\ i < j
        /\ fails[enqOrder[i]] /\ slot[enqOrder[i]].kind = "exception"
        /\ slot[enqOrder[j]] = [kind |-> "value", v |-> enqOrder[j] * enqOrder[j]]

\* C7: a failure of a task body is stored in that task's shared state and
\* in no other; it never reaches the worker's catch blocks or ends the
\* process.
C7_FailureRecorded ==
    /\ \A t \in TaskIds :
          /\ runs[t] = 0 => slot[t] = Empty
          /\ runs[t] >= 1 =>
                slot[t].kind = (IF fails[t] THEN "exception" ELSE "value")
    /\ logged = 0
    /\ alive => ~aborted

\* A throwing task and a returning task have both run.
C7_Witness ==
    \E t, u \in TaskIds :
        slot[t].kind = "exception" /\ slot[u].kind = "value"

\* C8: the destructor sets stop, wakes every waiting worker (none waits
\* once notify_all is done), and under fair scheduling returns; when it
\* returns every worker is Terminated and joined.
C8_ShutdownJoins ==
    /\ [](dpc \in {"d_notify", "d_join", "returned"} => stop)
    /\ [](dpc \in {"d_join", "returned"} => waiters = {})
    /\ [](dpc = "returned" => AllTerminated /\ joined = Workers)
    /\ (dpc = "d_set") ~> (dpc = "returned")

\* The destructor of a two-worker pool has returned.
C8_Witness == dpc = "returned" /\ threads = 2 /\ joined = {1, 2}

\* C9: stop starts false, is true once the destructor has set it, and never
\* goes back from true to false.
C9_StopMonotone ==
    /\ stop = FALSE
    /\ [][stop => stop']_vars
    /\ [](dpc \in {"d_notify", "d_join", "returned"} => stop)

\* stop is set while a worker is still executing.
C9_Witness == stop /\ \E w \in Workers : wpc[w] = "exec"

\* C10: a second invocation of the teardown returns and leaves the pool
\* state, the queue, the workers and every shared state as they were.
C10_SecondShutdownNoEffect ==
    [][(dpc = "returned" /\ dpc' /= "returned") =>
          /\ dpc' = "returned_again"
          /\ ~aborted'
          /\ UNCHANGED <<stop, tasks, wpc, joined, slot>>]_vars

\* Threads inside a critical section of queue_mutex: a worker between
\* lines 20 and 25, a caller of enqueue between lines 47 and 50, the owner
\* between lines 57 and 59.
HolderCount ==
    Cardinality({w \in Workers : wpc[w] = "wait"})
    + Cardinality({c \in Clients : cpc[c] = "e_check"})
    + (IF dpc = "d_set" THEN 1 ELSE 0)

\* C14: enqueue never waits for a worker or a task: whenever queue_mutex
\* is held its holder is a thread inside one of the short critical
\* sections, never a worker running a task body, and every step of enqueue
\* other than taking the free lock can be taken in whatever state the
\* workers and the queue are.
C14_SubmitNeverWaits ==
    /\ HolderCount <= 1
    /\ locked <=> HolderCount = 1
    /\ \A w \in Workers : wpc[w] = "exec" => wtask[w] /= 0
    /\ (alive /\ ~aborted) =>
          \A c \in Clients :
              /\ (cpc[c] = "e_lock" /\ ~locked) => ENABLED E_Lock(c)
              /\ cpc[c] = "e_check" => ENABLED (E_Throw(c) \/ E_Emplace(c))
              /\ cpc[c] = "e_notify" => ENABLED E_Notify(c)

\* A task was emplaced while the only worker is running another one.
C14_Witness ==
    /\ threads = 1 /\ wpc[1] = "exec"
    /\ \E c \in Clients : cpc[c] = "e_notify"
    /\ tasks /= <<>>

\* C16: a worker leaves the wait only with a task or to terminate: with
\* the queue empty and stop clear it stays in the wait; it pops only from a
\* non-empty queue, taking its front; it terminates only with stop set and
\* the queue empty.
C16_DequeueOrSentinel ==
    /\ [][\A w \in Workers :
            /\ (wpc[w] = "wait" /\ ~stop /\ tasks = <<>>) =>
                  wpc'[w] \in {"wait", "blocked"}
            /\ (wpc[w] /= "exec" /\ wpc'[w] = "exec") =>
                  (tasks /= <<>> /\ wtask'[w] = Head(tasks) /\ tasks' = Tail(tasks))
            /\ (wpc[w] /= "terminated" /\ wpc'[w] = "terminated") =>
                  (stop /\ tasks = <<>>)]_vars
    /\ [](alive => ~aborted)

\* The single worker of a pool that never got a task woke spuriously and
\* is blocked again.
C16_Witness ==
    /\ threads = 1 /\ spurious = 1 /\ wpc[1] = "blocked"
    /\ enqOrder = <<>> /\ ~stop

\* C17: a successful enqueue appends its task at the tail of the queue,
\* and its notify_one wakes exactly one waiting worker, or nobody when
\* nobody waits.
C17_AppendAndWakeOne ==
    [][\A c \in Clients :
          /\ (cpc[c] = "e_check" /\ cpc'[c] = "e_notify") =>
                tasks' = Append(tasks, ctask[c])
          /\ (cpc[c] = "e_notify" /\ cpc'[c] = "idle") =>
                /\ waiters' \subseteq waiters
                /\ Cardinality(waiters \ waiters') = (IF waiters = {} THEN 0 ELSE 1)
                /\ \A w \in Workers :
                      wpc'[w] = (IF w \in waiters \ waiters' THEN "lock" ELSE wpc[w])
                /\ ctask[c] \in handles']_vars

\* An enqueue has returned while one of two workers still waits: its
\* notify_one woke the other one only.
C17_Witness ==
    /\ threads = 2 /\ Cardinality(waiters) = 1
    /\ Cardinality(handles) = 1 /\ spurious = 0 /\ ~stop
    /\ \E w \in Workers : wpc[w] = "lock" /\ w \notin waiters
    /\ tasks /= <<>>

\* C18: no lost wakeup: when a task is queued and every worker is blocked
\* in the wait, a notification is still to come; under fair scheduling
\* every queued task is eventually popped.
C18_NoLostWakeup ==
    /\ []((tasks /= <<>> /\ \A w \in Workers : w \in waiters) =>
            (\E c \in Clients : cpc[c] = "e_notify"))
    /\ \A t \in TaskIds : (t \in Range(tasks)) ~> (claims[t] = 1)

\* A task is queued while every worker is blocked in the wait.
C18_Witness == tasks /= <<>> /\ \A w \in Workers : w \in waiters

\* C19: a submission racing with the destructor is either rejected and
\* adds nothing, or accepted and run before the last worker terminates:
\* every packaged_task created is in flight, rejected or accepted, never
\* two of these, and once all workers have terminated nothing is queued and
\* every accepted task has run.
C19_RaceAtomic ==
    /\ \A t \in 1..(nextId - 1) :
          LET inflight == \E c \in Clients :
                              ctask[c] = t /\ cpc[c] \in {"e_lock", "e_check"}
          IN  /\ inflight \/ t \in rejected \/ t \in Accepted
              /\ ~(inflight /\ t \in rejected)
              /\ ~(inflight /\ t \in Accepted)
              /\ ~(t \in rejected /\ t \in Accepted)
    /\ \A t \in rejected : t \notin Range(tasks) /\ claims[t] = 0
    /\ AllTerminated =>
          /\ tasks = <<>>
          /\ \A t \in Accepted : claims[t] = 1 /\ runs[t] = 1

\* While the destructor is joining, one submission has been accepted and
\* another rejected.
C19_Witness ==
    dpc = "d_join" /\ rejected /= {} /\ Accepted /= {}

\* C20: task conservation: every accepted task is in exactly one of the
\* queue, the hands of exactly one worker, or completed.
C20_Conservation ==
    LET held(t) == {w \in Workers : wpc[w] = "exec" /\ wtask[w] = t}
        queued(t) == {i \in 1..Len(tasks) : tasks[i] = t}
        done(t) == IF writes[t] = 1 /\ held(t) = {} THEN 1 ELSE 0
    IN  /\ \A t \in Accepted :
              Cardinality(queued(t)) + Cardinality(held(t)) + done(t) = 1
        /\ \A t \in TaskIds \ Accepted :
              Cardinality(queued(t)) + Cardinality(held(t)) + done(t) = 0
        /\ Len(enqOrder) =
              Len(tasks)
              + Cardinality({w \in Workers : wpc[w] = "exec"})
              + Cardinality({t \in TaskIds : done(t) = 1})

\* One accepted task is queued while another is being executed.
C20_Witness ==
    /\ tasks /= <<>>
    /\ \E w \in Workers : wpc[w] = "exec"
    /\ Len(enqOrder) = 2

\* C11: get() is repeatable: every later get() on a future gives what the
\* first one gave (and running the task again is never its effect).
C11_GetRepeatable ==
    /\ \A t \in TaskIds : reget[t] = Empty \/ reget[t] = got[t]
    /\ \A t \in TaskIds : runs[t] <= 1

\* C12: the constructor returns a pool with exactly `threads` workers, all
\* started, at least one of them, and stop clear; afterwards the set of
\* workers does not change, and no worker terminates while stop is clear.
C12_FixedWorkers ==
    /\ [](ctor = "done" =>
            /\ threads >= 1
            /\ created = threads
            /\ DOMAIN wpc = 1..threads
            /\ \A w \in 1..threads : wpc[w] /= "unborn")
    /\ []((ctor = "done" /\ dpc = "none") => ~stop)
    /\ [][ctor = "done" =>
            (ctor' = "done" /\ created' = created /\ threads' = threads
               /\ DOMAIN wpc' = DOMAIN wpc)]_vars
    /\ [](~stop => \A w \in 1..threads : wpc[w] /= "terminated")

\* The pool built for a hint of 0 has its default number of workers, all
\* of them waiting.
C12_Witness ==
    /\ ctor = "done" /\ threads = DefaultThreads
    /\ waiters = 1..DefaultThreads

\* C13: when the creation of a thread fails the caller gets the exception
\* and every worker already created has been stopped and joined.
C13_RollbackOnSpawnFailure ==
    ctor \in {"threw", "terminated"} =>
        /\ ctor = "threw"
        /\ ~aborted
        /\ \A w \in 1..created : wpc[w] = "terminated" /\ w \in joined

\* C15: result pairing: the first get() on the future of task t returns
\* only once t's body has run, exactly once, and returns what that body
\* produced: t * t for a body that returns.
C15_ResultPairing ==
    \A t \in consumed :
        /\ t \in handles
        /\ runs[t] = 1
        /\ got[t] = slot[t]
        /\ got[t] = OwnOutcome(t)
        /\ ~fails[t] => got[t] = [kind |-> "value", v |-> t * t]

\* Every future returned has been read, each giving the square of its own
\* task, while the pool is still running.
C15_Witness ==
    /\ Cardinality(consumed) = 2
    /\ \A t \in consumed : got[t] = [kind |-> "value", v |-> t * t]
    /\ ~stop

====
